---- MODULE Spec2Model ----
(***************************************************************************)
(* Authentication and token lifecycle of the blog backend:                 *)
(*   services/auth.service.js  (AuthService: login, register, logout,      *)
(*                              verifyToken, refreshToken, generateToken,  *)
(*                              storeToken)                                *)
(*   services/user.service.js  (UserService: the credential store adapter) *)
(*   utils/redis.js            (RedisManager: the session cache)           *)
(*   models/user.model.js      (the users table)                           *)
(*                                                                         *)
(* Time is counted in whole seconds, as jsonwebtoken and storeToken do     *)
(* (Math.floor(Date.now() / 1000)).  A token string is modelled by the     *)
(* data that determines it: the payload, iat, exp, the signing secret and  *)
(* what, if anything, was altered in the string the signer produced.       *)
(***************************************************************************)
EXTENDS Integers, FiniteSets, Sequences, TLC

\* ------------------------------------------------------------------ bounds

\* The clock runs from 0 to MaxTime seconds.
MaxTime == 3

\* The tokens a client presents were signed at a second from 0 to MaxIat.
MaxIat == 1

\* The configured token lifetimes storeToken is tried with: 0 to MaxLifetime
\* seconds.
MaxLifetime == 2

\* The Redis manager is followed over at most MaxClients `new Redis`.
MaxClients == 2

\* The reconnections in a row after which a client's retryStrategy gives up
\* (20 in the configuration).
MaxRetries == 1

\* ------------------------------------------------------- program constants

\* JWT_EXPIRATION (process.env.JWT_EXPIRATION || '1d'), in seconds; the
\* environment sets it, here to a lifetime the clock can outrun.
JWT_EXPIRATION == 2

\* JWT_SECRET (process.env.JWT_SECRET || 'your_jwt_secret').
JWT_SECRET == "your_jwt_secret"

\* A secret that is not the server's.
OtherSecret == "other_secret"

\* ------------------------------------------------------------- error kinds

\* new Error('用户不存在')                      (NotFound)
ErrUserNotFound == "Error:user_not_found"
\* new Error('密码错误')                        (InvalidCredentials)
ErrWrongPassword == "Error:wrong_password"
\* new Error('用户已被禁用')                    (AccountDisabled)
ErrUserDisabled == "Error:user_disabled"
\* new Error('用户名已存在')                    (Conflict)
ErrUsernameExists == "Error:username_exists"
\* new Error('邮箱已存在')                      (Conflict)
ErrEmailExists == "Error:email_exists"
\* new Error('令牌已失效')                      (Revoked)
ErrTokenInvalidated == "Error:token_invalidated"
\* new Error('刷新令牌失败')
ErrRefreshFailed == "Error:refresh_failed"
\* jsonwebtoken's TokenExpiredError             (Expired)
TokenExpiredError == "TokenExpiredError"
\* jsonwebtoken's JsonWebTokenError             (InvalidSignature)
JsonWebTokenError == "JsonWebTokenError"
\* JSON.parse's SyntaxError
SyntaxError == "SyntaxError"
\* calling a property that is not a function
TypeError == "TypeError"
\* Sequelize's notNull violation on create
SequelizeValidationError == "SequelizeValidationError"
\* a call that returned normally
Ok == "ok"

\* ------------------------------------------------------------------ values

Ids == {1, 2, 3}

NoUser ==
  [id |-> 0, username |-> "", email |-> "", password |-> "", role |-> "", status |-> ""]

NoClaims == [id |-> 0, username |-> "", email |-> "", role |-> ""]

NoToken ==
  [id |-> 0, username |-> "", email |-> "", role |-> "",
   iat |-> 0, exp |-> 0, secret |-> "", altered |-> "none"]

\* bcrypt.hashSync(password, 12): the hash is not the password, and
\* bcrypt.compareSync(p, h) holds exactly when h was made from p.
hashSync(password) == "bcrypt$" \o password

compareSync(password, hashedPassword) == hashedPassword = hashSync(password)

\* A JavaScript value that a condition tests: a boolean, or a Promise object.
JsBool(b) == [type |-> "boolean", value |-> b]

JsPromise(b) == [type |-> "promise", value |-> b]

\* ToBoolean: every object, a Promise included, is truthy.
Truthy(v) == IF v.type = "boolean" THEN v.value ELSE TRUE

VARIABLES
  users,     \* the rows of the users table
  cache,     \* the Redis keyspace: key -> [value, expireAt], or NoEntry
  redisUp,   \* whether Redis answers
  now,       \* the clock, in seconds
  last,      \* the last call of the service and what it returned
  pending,   \* the calls in flight of the callers that race, each at an await
  manager    \* the Redis manager: its fields, the clients it made, its callers

vars == <<users, cache, redisUp, now, last, pending, manager>>

\* ------------------------------------------------- session cache (Redis)

\* The two key conventions of the service: `user:${userId}` and
\* `user:${id}:token`.
KeyUser(userId) == [prefix |-> "user:", id |-> userId, suffix |-> ""]

KeyUserToken(userId) == [prefix |-> "user:", id |-> userId, suffix |-> ":token"]

Keys == {KeyUser(i) : i \in Ids} \cup {KeyUserToken(i) : i \in Ids}

\* expireAt = NoExpiry: the key was written by SET, without a time to live.
NoExpiry == -1

NoEntry == [present |-> FALSE, value |-> NoToken, expireAt |-> NoExpiry]

\* What the Redis server answers to GET: the value of a key that exists and
\* has not expired, else nil (NoToken).
ServerGet(c, t, key) ==
  IF c[key].present /\ (c[key].expireAt = NoExpiry \/ t < c[key].expireAt)
    THEN c[key].value
    ELSE NoToken

\* JSON.parse(value), falling back to the raw string: a JWT
\* (header.payload.signature) is no JSON text, so it comes back as it is.
ParseOrRaw(value) == value

\* RedisManager.set: null (nothing written) when the connection cannot be
\* ensured or the command fails; SETEX with a time to live that is not
\* positive is refused by the server; a time to live of 0 is falsy and takes
\* the plain SET.
redisSet(c, up, t, key, value, ttl) ==
  IF ~up THEN c
  ELSE IF ttl # 0
    THEN IF ttl > 0
           THEN [c EXCEPT ![key] = [present |-> TRUE, value |-> value, expireAt |-> t + ttl]]
           ELSE c
    ELSE [c EXCEPT ![key] = [present |-> TRUE, value |-> value, expireAt |-> NoExpiry]]

\* RedisManager.get: null when the connection cannot be ensured, the command
\* fails or the key is absent.
redisGet(c, up, t, key) ==
  IF ~up THEN NoToken ELSE ParseOrRaw(ServerGet(c, t, key))

\* RedisManager.del: the key is gone when the command ran; a failure is
\* swallowed (returns 0).
redisDel(c, up, key) ==
  IF ~up THEN c ELSE [c EXCEPT ![key] = NoEntry]

\* ------------------------------------------------------------ token codec

\* jwt.sign(payload, secret, {expiresIn}): HS256 is deterministic, so the
\* string is a function of the payload, iat (the second of signing), exp and
\* the secret.
jwtSign(payload, secret, t) ==
  [id |-> payload.id, username |-> payload.username, email |-> payload.email,
   role |-> payload.role, iat |-> t, exp |-> t + JWT_EXPIRATION,
   secret |-> secret, altered |-> "none"]

\* The token with one character altered in its signature or its header, or
\* in its payload so that the payload still is JSON: the three segments still
\* decode, and the signature no longer matches them.
AlteredSignature(token) == [token EXCEPT !.altered = "signature"]

\* The token with one character of its payload segment altered so that the
\* segment no longer decodes to JSON (its first character, say, which turns
\* the opening brace into another byte).
AlteredPayload(token) == [token EXCEPT !.altered = "payload"]

\* jwt.decode(token): the payload, unverified.
jwtDecode(token) ==
  [id |-> token.id, username |-> token.username, email |-> token.email,
   role |-> token.role, iat |-> token.iat, exp |-> token.exp]

\* jwt.verify with ignoreExpiration: the signature alone is checked.
jwtVerifyIgnoreExpiration(token, secret, t) ==
  IF token.altered = "payload"
    THEN [kind |-> SyntaxError, decoded |-> jwtDecode(NoToken)]
  ELSE IF token.altered = "signature" \/ token.secret # secret
    THEN [kind |-> JsonWebTokenError, decoded |-> jwtDecode(NoToken)]
    ELSE [kind |-> Ok, decoded |-> jwtDecode(token)]

\* jwt.verify(token, secret).  It first decodes the string (jws.decode), whose
\* JSON.parse of the payload segment is unguarded: what that throws, a
\* SyntaxError, is what verify throws.  Then the signature is checked
\* (JsonWebTokenError), then the expiry, clockTimestamp >= exp
\* (TokenExpiredError); else the payload is returned.
jwtVerify(token, secret, t) ==
  IF token.altered = "payload"
    THEN [kind |-> SyntaxError, decoded |-> jwtDecode(NoToken)]
  ELSE IF token.altered = "signature" \/ token.secret # secret
    THEN [kind |-> JsonWebTokenError, decoded |-> jwtDecode(NoToken)]
  ELSE IF t >= token.exp
    THEN [kind |-> TokenExpiredError, decoded |-> jwtDecode(NoToken)]
  ELSE [kind |-> Ok, decoded |-> jwtDecode(token)]

\* ------------------------------------------------- credential store adapter

\* The methods class UserService defines.
UserServiceMethods ==
  {"findByUsername", "findByEmail", "findById", "verifyPassword",
   "updateLastLoginTime", "getUserProfile", "updateUserProfile",
   "changePassword", "updateUserAvatar", "getActivity", "getAchievements",
   "initializeAchievements", "createUser"}

\* Calling userService[name](...): a TypeError when the property is undefined.
IsFunction(name) == name \in UserServiceMethods

\* User.findOne({where: {username}}): the row or null; username is unique.
findByUsername(rows, username) ==
  IF \E u \in rows : u.username = username
    THEN CHOOSE u \in rows : u.username = username
    ELSE NoUser

\* A findByEmail whose query matches no row.
findByEmailNoMatch(rows, email) == NoUser

\* User.findOne({where: {email}}): the row or null; email is unique.
findByEmail(rows, email) ==
  IF \E u \in rows : u.email = email
    THEN CHOOSE u \in rows : u.email = email
    ELSE NoUser

\* User.findByPk(userId).
findById(rows, userId) ==
  IF \E u \in rows : u.id = userId
    THEN CHOOSE u \in rows : u.id = userId
    ELSE NoUser

\* async verifyPassword: what a caller holds is the Promise of the comparison.
verifyPassword(password, hashedPassword) ==
  JsPromise(compareSync(password, hashedPassword))

\* The columns of the users table that are allowNull: false and have no
\* default: User.create rejects a row that leaves one of them out.
NotNullColumns == {"username", "email", "password", "fullName"}

\* The columns createUser hands to User.create.
CreateUserColumns == {"username", "password", "email", "role", "status"}

\* The next AUTO_INCREMENT id.
NextId(rows) == IF rows = {} THEN 1 ELSE 1 + CHOOSE m \in {u.id : u \in rows} :
                                              \A u \in rows : u.id <= m

\* UserService.createUser(userData): [kind, user, rows].  It repeats both
\* uniqueness look-ups, hashes the password and creates the row (userData
\* carries role and status, 'user' and 'active' when the caller gave none).
createUser(rows, userData) ==
  IF findByUsername(rows, userData.username) # NoUser
    THEN [kind |-> ErrUsernameExists, user |-> NoUser, rows |-> rows]
  ELSE IF findByEmail(rows, userData.email) # NoUser
    THEN [kind |-> ErrEmailExists, user |-> NoUser, rows |-> rows]
  ELSE IF ~(NotNullColumns \subseteq CreateUserColumns)
    THEN [kind |-> SequelizeValidationError, user |-> NoUser, rows |-> rows]
  ELSE LET row == [id |-> NextId(rows), username |-> userData.username,
                   email |-> userData.email,
                   password |-> hashSync(userData.password),
                   role |-> userData.role, status |-> userData.status]
       IN [kind |-> Ok, user |-> row, rows |-> rows \cup {row}]

\* Sequelize's unique-constraint error on create
SequelizeUniqueConstraintError == "SequelizeUniqueConstraintError"

\* A User.create that neither validates the row nor meets a unique index.
UserCreateUnconstrained(rows, userData) ==
  LET row == [id |-> NextId(rows), username |-> userData.username,
              email |-> userData.email,
              password |-> hashSync(userData.password),
              role |-> userData.role, status |-> userData.status]
  IN [kind |-> Ok, user |-> row, rows |-> rows \cup {row}]

\* User.create({username, password, email, role, status}) at the moment the
\* INSERT runs: [kind, user, rows].  Sequelize validates the row first
\* (notNull), then the unique indexes on username and email decide.
UserCreate(rows, userData) ==
  IF ~(NotNullColumns \subseteq CreateUserColumns)
    THEN [kind |-> SequelizeValidationError, user |-> NoUser, rows |-> rows]
  ELSE IF \E u \in rows : u.username = userData.username \/ u.email = userData.email
    THEN [kind |-> SequelizeUniqueConstraintError, user |-> NoUser, rows |-> rows]
  ELSE LET row == [id |-> NextId(rows), username |-> userData.username,
                   email |-> userData.email,
                   password |-> hashSync(userData.password),
                   role |-> userData.role, status |-> userData.status]
       IN [kind |-> Ok, user |-> row, rows |-> rows \cup {row}]

\* ------------------------------------------------------------ auth service

\* What a call returns or throws: its kind (Ok or the error), the token it
\* returned and the claims or identity it returned.
Res(kind, token, claims) == [kind |-> kind, token |-> token, claims |-> claims]

Identity(user) ==
  [id |-> user.id, username |-> user.username, email |-> user.email, role |-> user.role]

\* AuthService.generateToken(user).
generateToken(user, t) == jwtSign(Identity(user), JWT_SECRET, t)

\* AuthService.storeToken(userId, token): the cache after it.  The time to
\* live is decoded.exp - now; a failure of set is swallowed.
storeToken(c, up, t, userId, token) ==
  LET decoded == jwtDecode(token)
      expiresAt == decoded.exp - t
  IN redisSet(c, up, t, KeyUser(userId), token, expiresAt)

\* verifyToken without the comparison against the cache.
verifyTokenNoCacheCheck(c, up, t, token) ==
  LET v == jwtVerify(token, JWT_SECRET, t)
  IN IF v.kind # Ok
       THEN Res(v.kind, NoToken, NoClaims)
       ELSE Res(Ok, NoToken, Identity(v.decoded))

\* verifyToken that takes a null answer of the cache as nothing to compare
\* with: `if (storedToken && storedToken !== token)`.
verifyTokenFailOpen(c, up, t, token) ==
  LET v == jwtVerify(token, JWT_SECRET, t)
  IN IF v.kind # Ok
       THEN Res(v.kind, NoToken, NoClaims)
       ELSE LET storedToken == redisGet(c, up, t, KeyUserToken(v.decoded.id))
            IN IF storedToken # NoToken /\ storedToken # token
                 THEN Res(ErrTokenInvalidated, NoToken, NoClaims)
                 ELSE Res(Ok, NoToken, Identity(v.decoded))

\* AuthService.verifyToken(token): Res.  jwt.verify first; then the cache
\* entry `user:${decoded.id}:token` must exist and equal the token.
verifyToken(c, up, t, token) ==
  LET v == jwtVerify(token, JWT_SECRET, t)
  IN IF v.kind # Ok
       THEN Res(v.kind, NoToken, NoClaims)
       ELSE LET storedToken == redisGet(c, up, t, KeyUserToken(v.decoded.id))
            IN IF storedToken = NoToken \/ storedToken # token
                 THEN Res(ErrTokenInvalidated, NoToken, NoClaims)
                 ELSE Res(Ok, NoToken, Identity(v.decoded))

\* login without the `if (!user)` check: reading user.password of null
\* throws a TypeError.
loginNoUserCheck(rows, c, up, t, username, password) ==
  LET user == findByUsername(rows, username)
      token == generateToken(user, t)
  IN IF user = NoUser
       THEN [res |-> Res(TypeError, NoToken, NoClaims), cache |-> c]
     ELSE IF user.status # "active"
       THEN [res |-> Res(ErrUserDisabled, NoToken, NoClaims), cache |-> c]
     ELSE IF ~IsFunction("updateLastLogin")
       THEN [res |-> Res(TypeError, NoToken, NoClaims), cache |-> c]
     ELSE [res |-> Res(Ok, token, Identity(user)),
           cache |-> storeToken(c, up, t, user.id, token)]

\* login without the `if (user.status !== 'active')` check: an account of
\* any status goes on to the last-login update.
loginNoStatusCheck(rows, c, up, t, username, password) ==
  LET user == findByUsername(rows, username)
      isPasswordValid == verifyPassword(password, user.password)
      token == generateToken(user, t)
  IN IF user = NoUser
       THEN [res |-> Res(ErrUserNotFound, NoToken, NoClaims), cache |-> c]
     ELSE IF ~Truthy(isPasswordValid)
       THEN [res |-> Res(ErrWrongPassword, NoToken, NoClaims), cache |-> c]
     ELSE IF ~IsFunction("updateLastLogin")
       THEN [res |-> Res(TypeError, NoToken, NoClaims), cache |-> c]
     ELSE [res |-> Res(Ok, token, Identity(user)),
           cache |-> storeToken(c, up, t, user.id, token)]

\* AuthService.login(username, password): [res, cache].
login(rows, c, up, t, username, password) ==
  LET user == findByUsername(rows, username)
      isPasswordValid == verifyPassword(password, user.password)
      token == generateToken(user, t)
  IN IF user = NoUser
       THEN [res |-> Res(ErrUserNotFound, NoToken, NoClaims), cache |-> c]
     ELSE IF ~Truthy(isPasswordValid)
       THEN [res |-> Res(ErrWrongPassword, NoToken, NoClaims), cache |-> c]
     ELSE IF user.status # "active"
       THEN [res |-> Res(ErrUserDisabled, NoToken, NoClaims), cache |-> c]
     ELSE IF ~IsFunction("updateLastLogin")
       THEN [res |-> Res(TypeError, NoToken, NoClaims), cache |-> c]
     ELSE [res |-> Res(Ok, token, Identity(user)),
           cache |-> storeToken(c, up, t, user.id, token)]

\* AuthService.register(userData): [res, cache, rows].
register(rows, c, up, t, userData) ==
  IF findByUsername(rows, userData.username) # NoUser
    THEN [res |-> Res(ErrUsernameExists, NoToken, NoClaims), cache |-> c, rows |-> rows]
  ELSE IF findByEmail(rows, userData.email) # NoUser
    THEN [res |-> Res(ErrEmailExists, NoToken, NoClaims), cache |-> c, rows |-> rows]
  ELSE LET created == createUser(rows, userData)
           token == generateToken(created.user, t)
       IN IF created.kind # Ok
            THEN [res |-> Res(created.kind, NoToken, NoClaims), cache |-> c, rows |-> rows]
            ELSE [res |-> Res(Ok, token, Identity(created.user)),
                  cache |-> storeToken(c, up, t, created.user.id, token),
                  rows |-> created.rows]

\* logout whose catch rethrows: a delete that failed fails the logout.
logoutRethrows(c, up, userId) ==
  [res |-> Res(IF up THEN Ok ELSE "Error:redis_del_failed", NoToken, NoClaims),
   cache |-> redisDel(c, up, KeyUser(userId))]

\* AuthService.logout(userId): [res, cache]; true whatever del did.
logout(c, up, userId) ==
  [res |-> Res(Ok, NoToken, NoClaims), cache |-> redisDel(c, up, KeyUser(userId))]

\* AuthService.refreshToken(token): [res, cache]; every failure is rethrown
\* as the one error '刷新令牌失败'.
refreshToken(rows, c, up, t, token) ==
  LET decoded == verifyToken(c, up, t, token)
      user == findById(rows, decoded.claims.id)
      newToken == generateToken(user, t)
  IN IF decoded.kind # Ok \/ user = NoUser
       THEN [res |-> Res(ErrRefreshFailed, NoToken, NoClaims), cache |-> c]
       ELSE [res |-> Res(Ok, newToken, NoClaims),
             cache |-> storeToken(c, up, t, user.id, newToken)]

\* ------------------------------------------------------- the request gate

\* The messages of the gate's responses.
\* '未提供认证令牌'
MsgNoTokenProvided == "no_token_provided"
\* '令牌已过期'
MsgTokenExpired == "token_expired"
\* '无效的令牌'
MsgInvalidToken == "invalid_token"
\* '令牌已失效，请重新登录'
MsgTokenInvalidated == "token_invalidated_login_again"
\* '认证失败'
MsgAuthFailed == "authentication_failed"

\* The Authorization header of a request: absent, or a string, which is
\* given by what precedes its first space (scheme) and by the pieces that
\* split(' ') yields after it (rest; an empty piece is NoToken).  The string
\* starts with 'Bearer ' when its scheme is 'Bearer' and a space follows.
Header(scheme, rest) == [present |-> TRUE, scheme |-> scheme, rest |-> rest]

NoHeader == [present |-> FALSE, scheme |-> "", rest |-> <<>>]

\* `!authHeader`: undefined or the empty string.
Falsy(authHeader) ==
  ~authHeader.present \/ (authHeader.scheme = "" /\ authHeader.rest = <<>>)

startsWithBearer(authHeader) ==
  authHeader.scheme = "Bearer" /\ Len(authHeader.rest) >= 1

\* authHeader.split(' ')[1]
splitSecond(authHeader) == authHeader.rest[1]

\* What the gate did with a request: the response it sent (status 0: none)
\* and how many it sent, whether and how many times it called next, the
\* req.user it set, and whether it called authService.verifyToken.
NoResponse ==
  [status |-> 0, message |-> "", sent |-> 0, next |-> FALSE, nextCalls |-> 0,
   user |-> NoClaims, verifyCalled |-> FALSE]

\* res.apiUnauthorized(message): status 401.
apiUnauthorized(message, verifyCalled) ==
  [NoResponse EXCEPT !.status = 401, !.message = message, !.sent = 1,
                     !.verifyCalled = verifyCalled]

\* The gate without the `if (!token)` check: the empty piece after
\* 'Bearer ' goes to authService.verifyToken.
gateNoEmptyTokenCheck(c, up, t, authHeader) ==
  IF Falsy(authHeader) \/ ~startsWithBearer(authHeader)
    THEN apiUnauthorized(MsgNoTokenProvided, FALSE)
  ELSE LET token == splitSecond(authHeader)
           decoded == verifyToken(c, up, t, token)
       IN IF decoded.kind = Ok
            THEN [NoResponse EXCEPT !.next = TRUE, !.nextCalls = 1,
                                    !.user = decoded.claims, !.verifyCalled = TRUE]
          ELSE IF decoded.kind = TokenExpiredError
            THEN apiUnauthorized(MsgTokenExpired, TRUE)
          ELSE IF decoded.kind = JsonWebTokenError
            THEN apiUnauthorized(MsgInvalidToken, TRUE)
          ELSE IF decoded.kind = ErrTokenInvalidated
            THEN apiUnauthorized(MsgTokenInvalidated, TRUE)
          ELSE apiUnauthorized(MsgAuthFailed, TRUE)

\* The gate without the branch for TokenExpiredError: the error is
\* rethrown to the outer catch.
gateNoExpiredBranch(c, up, t, authHeader) ==
  IF Falsy(authHeader) \/ ~startsWithBearer(authHeader)
    THEN apiUnauthorized(MsgNoTokenProvided, FALSE)
  ELSE LET token == splitSecond(authHeader)
           decoded == verifyToken(c, up, t, token)
       IN IF token = NoToken
            THEN apiUnauthorized(MsgNoTokenProvided, FALSE)
          ELSE IF decoded.kind = Ok
            THEN [NoResponse EXCEPT !.next = TRUE, !.nextCalls = 1,
                                    !.user = decoded.claims, !.verifyCalled = TRUE]
          ELSE IF decoded.kind = JsonWebTokenError
            THEN apiUnauthorized(MsgInvalidToken, TRUE)
          ELSE IF decoded.kind = ErrTokenInvalidated
            THEN apiUnauthorized(MsgTokenInvalidated, TRUE)
          ELSE apiUnauthorized(MsgAuthFailed, TRUE)

\* The gate that lets a token that is no longer valid through to next, as
\* optionalAuth does, instead of answering it.
gateLetsInvalidatedThrough(c, up, t, authHeader) ==
  IF Falsy(authHeader) \/ ~startsWithBearer(authHeader)
    THEN apiUnauthorized(MsgNoTokenProvided, FALSE)
  ELSE LET token == splitSecond(authHeader)
           decoded == verifyToken(c, up, t, token)
       IN IF token = NoToken
            THEN apiUnauthorized(MsgNoTokenProvided, FALSE)
          ELSE IF decoded.kind = Ok
            THEN [NoResponse EXCEPT !.next = TRUE, !.nextCalls = 1,
                                    !.user = decoded.claims, !.verifyCalled = TRUE]
          ELSE IF decoded.kind = TokenExpiredError
            THEN apiUnauthorized(MsgTokenExpired, TRUE)
          ELSE IF decoded.kind = JsonWebTokenError
            THEN apiUnauthorized(MsgInvalidToken, TRUE)
          ELSE IF decoded.kind = ErrTokenInvalidated
            THEN [NoResponse EXCEPT !.next = TRUE, !.nextCalls = 1,
                                    !.verifyCalled = TRUE]
          ELSE apiUnauthorized(MsgAuthFailed, TRUE)

\* authMiddleware.verifyToken(req, res, next).
authMiddleware_verifyToken(c, up, t, authHeader) ==
  IF Falsy(authHeader) \/ ~startsWithBearer(authHeader)
    THEN apiUnauthorized(MsgNoTokenProvided, FALSE)
  ELSE LET token == splitSecond(authHeader)
           decoded == verifyToken(c, up, t, token)
       IN IF token = NoToken
            THEN apiUnauthorized(MsgNoTokenProvided, FALSE)
          ELSE IF decoded.kind = Ok
            THEN [NoResponse EXCEPT !.next = TRUE, !.nextCalls = 1,
                                    !.user = decoded.claims, !.verifyCalled = TRUE]
          ELSE IF decoded.kind = TokenExpiredError
            THEN apiUnauthorized(MsgTokenExpired, TRUE)
          ELSE IF decoded.kind = JsonWebTokenError
            THEN apiUnauthorized(MsgInvalidToken, TRUE)
          ELSE IF decoded.kind = ErrTokenInvalidated
            THEN apiUnauthorized(MsgTokenInvalidated, TRUE)
          ELSE apiUnauthorized(MsgAuthFailed, TRUE)

\* optionalAuth that rejects a token that fails verification, as the
\* mandatory gate does.
optionalAuthRejects(c, up, t, authHeader) ==
  IF Falsy(authHeader) \/ ~startsWithBearer(authHeader)
    THEN [NoResponse EXCEPT !.next = TRUE, !.nextCalls = 1]
  ELSE LET token == splitSecond(authHeader)
           decoded == verifyToken(c, up, t, token)
       IN IF token = NoToken
            THEN [NoResponse EXCEPT !.next = TRUE, !.nextCalls = 1]
          ELSE IF decoded.kind = Ok
            THEN [NoResponse EXCEPT !.next = TRUE, !.nextCalls = 1,
                                    !.user = decoded.claims, !.verifyCalled = TRUE]
          ELSE apiUnauthorized(MsgInvalidToken, TRUE)

\* authMiddleware.optionalAuth(req, res, next): next is called on every
\* path, and req.user is set only from a verifyToken that returned.
optionalAuth(c, up, t, authHeader) ==
  IF Falsy(authHeader) \/ ~startsWithBearer(authHeader)
    THEN [NoResponse EXCEPT !.next = TRUE, !.nextCalls = 1]
  ELSE LET token == splitSecond(authHeader)
           decoded == verifyToken(c, up, t, token)
       IN IF token = NoToken
            THEN [NoResponse EXCEPT !.next = TRUE, !.nextCalls = 1]
          ELSE IF decoded.kind = Ok
            THEN [NoResponse EXCEPT !.next = TRUE, !.nextCalls = 1,
                                    !.user = decoded.claims, !.verifyCalled = TRUE]
          ELSE [NoResponse EXCEPT !.next = TRUE, !.nextCalls = 1,
                                  !.verifyCalled = TRUE]

\* ------------------------------------------- controllers and errorHandler

\* A response with a status and a message, sent once.
Response(status, message) ==
  [NoResponse EXCEPT !.status = status, !.message = message, !.sent = 1]

\* '用户名和密码不能为空' / '用户名、邮箱和密码不能为空'
MsgFieldsRequired == "fields_must_not_be_empty"
\* '数据验证错误'
MsgDataValidation == "data_validation_error"
\* '登录成功'
MsgLoginOk == "login_ok"
\* '注册成功'
MsgRegisterOk == "register_ok"

\* errorHandler(err, req, res, next), for an error of the given kind (its
\* name, or its message when it is a plain Error) and the res.statusCode
\* it finds: 200, the default, becomes 500.
errorHandler(kind, resStatusCode) ==
  LET statusCode == IF resStatusCode = 200 THEN 500 ELSE resStatusCode
  IN IF kind = SequelizeValidationError
       THEN Response(400, MsgDataValidation)
     ELSE IF kind = JsonWebTokenError
       THEN Response(401, MsgInvalidToken)
     ELSE IF kind = TokenExpiredError
       THEN Response(401, MsgTokenExpired)
     ELSE IF statusCode >= 500
       THEN Response(500, kind)
     ELSE Response(statusCode, kind)

\* asyncHandler(fn): a rejection of fn goes to next(err) and so, past
\* errorLogger, to errorHandler, with res.statusCode still 200.
asyncHandler(r, okStatus, okMessage) ==
  IF r.res.kind = Ok
    THEN [http |-> Response(okStatus, okMessage), res |-> r.res, cache |-> r.cache]
    ELSE [http |-> errorHandler(r.res.kind, 200), res |-> r.res, cache |-> r.cache]

\* exports.login: [http, res, cache].
loginController(rows, c, up, t, username, password) ==
  IF username = "" \/ password = ""
    THEN [http |-> Response(400, MsgFieldsRequired),
          res |-> Res(Ok, NoToken, NoClaims), cache |-> c]
    ELSE asyncHandler(login(rows, c, up, t, username, password), 200, MsgLoginOk)

\* exports.register: [http, res, cache, rows].
registerController(rows, c, up, t, userData) ==
  IF userData.username = "" \/ userData.email = "" \/ userData.password = ""
    THEN [http |-> Response(400, MsgFieldsRequired),
          res |-> Res(Ok, NoToken, NoClaims), cache |-> c, rows |-> rows]
    ELSE LET r == register(rows, c, up, t, userData)
             h == asyncHandler(r, 201, MsgRegisterOk)
         IN [http |-> h.http, res |-> r.res, cache |-> r.cache, rows |-> r.rows]

\* ------------------------------------------------------------------ inputs

Usernames == {"alice", "bob", "nouser"}

Passwords == {"Secret123", "wrong"}

\* The rows the users table holds at start: alice, active, and bob, whose
\* status is one of the three the column allows.
SeedUsers(bobStatus) ==
  { [id |-> 1, username |-> "alice", email |-> "a@x.com",
     password |-> hashSync("Secret123"), role |-> "user", status |-> "active"],
    [id |-> 2, username |-> "bob", email |-> "b@x.com",
     password |-> hashSync("Secret123"), role |-> "admin", status |-> bobStatus] }

Statuses == {"active", "inactive", "banned"}

\* The registrations a client sends.
RegisterInputs ==
  { [username |-> u, email |-> e, password |-> "Secret123", role |-> "user", status |-> "active"] :
      u \in {"alice", "carol"}, e \in {"a@x.com", "c@x.com"} }

\* The identities a presented token may claim: the two accounts, and an
\* account the table does not hold.
TokenSubjects ==
  { [id |-> 1, username |-> "alice", email |-> "a@x.com", role |-> "user"],
    [id |-> 2, username |-> "bob", email |-> "b@x.com", role |-> "admin"],
    [id |-> 3, username |-> "carol", email |-> "c@x.com", role |-> "user"] }

\* The token strings a client presents: signed with the server's secret,
\* alice's signed with another secret, and alice's tokens of the server with
\* one character altered.
SignedTokens(subjects, secret) ==
  { jwtSign(p, secret, t) : p \in subjects, t \in 0..MaxIat }

AliceTokens == SignedTokens({p \in TokenSubjects : p.username = "alice"}, JWT_SECRET)

TokenInputs ==
  SignedTokens(TokenSubjects, JWT_SECRET)
    \cup SignedTokens({p \in TokenSubjects : p.username = "alice"}, OtherSecret)
    \cup { AlteredSignature(tok) : tok \in AliceTokens }
    \cup { AlteredPayload(tok) : tok \in AliceTokens }

\* ----------------------------------------------------------- state machine

\* Request bodies of POST /login and POST /register: the inputs of the
\* service, and bodies with a field missing.
LoginBodies ==
  { [username |-> u, password |-> p] : u \in Usernames \cup {""}, p \in Passwords \cup {""} }

RegisterBodies ==
  RegisterInputs \cup
    { [username |-> "", email |-> "c@x.com", password |-> "Secret123",
       role |-> "user", status |-> "active"],
      [username |-> "carol", email |-> "", password |-> "Secret123",
       role |-> "user", status |-> "active"],
      [username |-> "carol", email |-> "c@x.com", password |-> "",
       role |-> "user", status |-> "active"] }

\* A token to put into headers that are not well formed.
SampleToken == jwtSign(CHOOSE p \in TokenSubjects : p.username = "alice", JWT_SECRET, 0)

\* Authorization headers: none; ''; 'Basic T'; 'bearer T'; 'Bearer';
\* 'Bearer ' (nothing after the space); 'Bearer  T' (two spaces); and
\* 'Bearer T' for every input token T.
MalformedHeaders ==
  { NoHeader, Header("", <<>>), Header("Basic", <<SampleToken>>),
    Header("bearer", <<SampleToken>>), Header("Bearer", <<>>),
    Header("Bearer", <<NoToken>>), Header("Bearer", <<NoToken, SampleToken>>) }

HeaderInputs == MalformedHeaders \cup { Header("Bearer", <<tok>>) : tok \in TokenInputs }

\* The callers whose calls may overlap.
Callers == {"A", "B"}

\* A caller that has called nothing yet.
Idle ==
  [op |-> "none", at |-> "idle", username |-> "", password |-> "", email |-> "",
   token |-> NoToken, res |-> Res(Ok, NoToken, NoClaims)]

\* ---------------------------------------------------------- Redis manager

NoClient == 0
ClientIds == 1..MaxClients

\* A caller of the manager that is in no call.
NoCall == [op |-> "none", at |-> "idle", awaits |-> NoClient]

\* The manager after its constructor: no client, not connected, not
\* connecting; no ioredis client exists and nobody calls.
NewManager ==
  [client |-> NoClient, isConnected |-> FALSE, isConnecting |-> FALSE,
   clients |-> [c \in ClientIds |-> [status |-> "none", retryAttempts |-> 0]],
   calls |-> [k \in Callers |-> NoCall]]

\* The clients made by `new Redis` so far, and those of them still open:
\* a client stays open, connected or on its way to reconnect, until its
\* retryStrategy gives up (status end).
Created(m) == {c \in ClientIds : m.clients[c].status # "none"}
OpenClients(m) == {c \in ClientIds : m.clients[c].status \notin {"none", "end"}}

\* isReady(): this.client && this.isConnected && this.client.status === 'ready'
isReady(m) ==
  m.client # NoClient /\ m.isConnected /\ m.clients[m.client].status = "ready"

\* connect() called by k from operation op, up to its return or first
\* await: return the client; or poll while another call connects; or make
\* a new client, keep it in this.client and await its ready or error.
connect(m, k, op) ==
  LET c == Cardinality(Created(m)) + 1
  IN IF m.client # NoClient /\ m.isConnected
       THEN [m EXCEPT !.calls[k] = [op |-> op, at |-> "resolved", awaits |-> NoClient]]
     ELSE IF m.isConnecting
       THEN [m EXCEPT !.calls[k] = [op |-> op, at |-> "poll", awaits |-> NoClient]]
     ELSE [m EXCEPT !.isConnecting = TRUE, !.client = c,
                    !.clients[c] = [status |-> "connecting", retryAttempts |-> 0],
                    !.calls[k] = [op |-> op, at |-> "await", awaits |-> c]]

\* Whether connect() stays within the clients followed.
WithinClients(m) ==
  \/ m.client # NoClient /\ m.isConnected
  \/ m.isConnecting
  \/ Cardinality(Created(m)) < MaxClients

\* A client that lost its connection: ioredis asks retryStrategy and
\* reconnects, or ends when the strategy returns null.
Disconnected(cl) ==
  IF cl.retryAttempts >= MaxRetries
    THEN [status |-> "end", retryAttempts |-> cl.retryAttempts]
    ELSE [status |-> "reconnecting", retryAttempts |-> cl.retryAttempts + 1]

\* The record of a call: what was called, with what, at which second, whether
\* Redis answered then, and the outcome; n alternates from call to call.
Call(op, username, password, userId, token, res) ==
  [op |-> op, n |-> 1 - last.n, time |-> now, up |-> redisUp, username |-> username,
   password |-> password, userId |-> userId, token |-> token, res |-> res,
   header |-> NoHeader, http |-> NoResponse]

Init ==
  /\ \E s \in Statuses : users = SeedUsers(s)
  /\ cache = [k \in Keys |-> NoEntry]
  /\ redisUp = TRUE
  /\ now = 0
  /\ last = [op |-> "none", n |-> 0, time |-> 0, up |-> TRUE, username |-> "", password |-> "",
             userId |-> 0, token |-> NoToken, res |-> Res(Ok, NoToken, NoClaims),
             header |-> NoHeader, http |-> NoResponse]
  /\ pending = [k \in Callers |-> Idle]
  /\ manager = NewManager

\* POST /login -> AuthService.login
Login(username, password) ==
  LET r == login(users, cache, redisUp, now, username, password)
  IN /\ cache' = r.cache
     /\ last' = Call("login", username, password, 0, NoToken, r.res)
     /\ UNCHANGED <<users, redisUp, now, pending, manager>>

\* POST /register -> AuthService.register
Register(userData) ==
  LET r == register(users, cache, redisUp, now, userData)
  IN /\ cache' = r.cache
     /\ users' = r.rows
     /\ last' = Call("register", userData.username, userData.password, 0, NoToken, r.res)
     /\ UNCHANGED <<redisUp, now, pending, manager>>

\* POST /logout -> AuthService.logout
Logout(userId) ==
  LET r == logout(cache, redisUp, userId)
  IN /\ cache' = r.cache
     /\ last' = Call("logout", "", "", userId, NoToken, r.res)
     /\ UNCHANGED <<users, redisUp, now, pending, manager>>

\* POST /verify and the request gate -> AuthService.verifyToken
VerifyToken(token) ==
  /\ last' = Call("verify", "", "", 0, token, verifyToken(cache, redisUp, now, token))
  /\ UNCHANGED <<users, cache, redisUp, now, pending, manager>>

\* POST /refresh -> AuthService.refreshToken
RefreshToken(token) ==
  LET r == refreshToken(users, cache, redisUp, now, token)
  IN /\ cache' = r.cache
     /\ last' = Call("refresh", "", "", 0, token, r.res)
     /\ UNCHANGED <<users, redisUp, now, pending, manager>>

\* POST /login through the controller and the error handler.
LoginRequest(body) ==
  LET r == loginController(users, cache, redisUp, now, body.username, body.password)
  IN /\ cache' = r.cache
     /\ last' = [Call("POST /login", body.username, body.password, 0, NoToken, r.res)
                   EXCEPT !.http = r.http]
     /\ UNCHANGED <<users, redisUp, now, pending, manager>>

\* POST /register through the controller and the error handler.
RegisterRequest(body) ==
  LET r == registerController(users, cache, redisUp, now, body)
  IN /\ cache' = r.cache
     /\ users' = r.rows
     /\ last' = [Call("POST /register", body.username, body.password, 0, NoToken, r.res)
                   EXCEPT !.http = r.http]
     /\ UNCHANGED <<redisUp, now, pending, manager>>

\* A request to a route behind authMiddleware.verifyToken.
Gate(authHeader) ==
  /\ last' = [Call("gate", "", "", 0, NoToken, Res(Ok, NoToken, NoClaims))
                EXCEPT !.header = authHeader,
                       !.http = authMiddleware_verifyToken(cache, redisUp, now, authHeader)]
  /\ UNCHANGED <<users, cache, redisUp, now, pending, manager>>

\* A request to a route behind authMiddleware.optionalAuth.
OptionalGate(authHeader) ==
  /\ last' = [Call("optional", "", "", 0, NoToken, Res(Ok, NoToken, NoClaims))
                EXCEPT !.header = authHeader,
                       !.http = optionalAuth(cache, redisUp, now, authHeader)]
  /\ UNCHANGED <<users, cache, redisUp, now, pending, manager>>

\* A second passes.
Tick ==
  /\ now < MaxTime
  /\ now' = now + 1
  /\ UNCHANGED <<users, cache, redisUp, last, pending, manager>>

\* Redis stops answering, or answers again.
RedisOutage ==
  /\ redisUp' = ~redisUp
  /\ UNCHANGED <<users, cache, now, last, pending, manager>>

Next ==
  \/ \E u \in Usernames, p \in Passwords : Login(u, p)
  \/ \E d \in RegisterInputs : Register(d)
  \/ \E i \in Ids : Logout(i)
  \/ \E tok \in TokenInputs : VerifyToken(tok)
  \/ \E tok \in TokenInputs : RefreshToken(tok)
  \/ Tick
  \/ RedisOutage

Spec == Init /\ [][Next]_vars

\* ------------------------------------------- requests through the HTTP layer

\* The service as its clients reach it: the login and register endpoints
\* with their controllers and the error handler, and routes behind the
\* mandatory and the optional gate.
NextHttp ==
  \/ \E b \in LoginBodies : LoginRequest(b)
  \/ \E b \in RegisterBodies : RegisterRequest(b)
  \/ \E h \in HeaderInputs : Gate(h)
  \/ \E h \in HeaderInputs : OptionalGate(h)
  \/ Tick
  \/ RedisOutage

SpecHttp == Init /\ [][NextHttp]_vars

\* ------------------------------------------------------ calls that overlap

\* An async method runs to its next await and resumes when the awaited
\* answer arrives; between the two, the other caller's code may run.

\* login to its first await: the query of findByUsername is on its way.
LoginBegin(k, username, password) ==
  /\ pending[k].at = "idle"
  /\ pending' = [pending EXCEPT ![k] =
                   [Idle EXCEPT !.op = "login", !.at = "findByUsername",
                                !.username = username, !.password = password]]
  /\ UNCHANGED <<users, cache, redisUp, now, last, manager>>

\* login from the answer of findByUsername on: the three checks and the
\* call of updateLastLogin run without a break.  No call gets past that
\* line, so the awaits after it (updateLastLogin's, storeToken's) are no
\* steps of their own here.
LoginResume(k) ==
  /\ pending[k].op = "login" /\ pending[k].at = "findByUsername"
  /\ LET r == login(users, cache, redisUp, now, pending[k].username, pending[k].password)
     IN /\ pending' = [pending EXCEPT ![k].at = "done", ![k].res = r.res]
        /\ cache' = r.cache
  /\ UNCHANGED <<users, redisUp, now, last, manager>>

\* refreshToken to its first await: verifyToken's jwt.verify has run, and
\* either threw (the refresh is over) or the GET of the stored token is on
\* its way.
RefreshBegin(k, token) ==
  /\ pending[k].at = "idle"
  /\ LET v == jwtVerify(token, JWT_SECRET, now)
     IN pending' = [pending EXCEPT ![k] =
                      [Idle EXCEPT !.op = "refresh", !.token = token,
                                   !.at = IF v.kind = Ok THEN "redisGet" ELSE "done",
                                   !.res = IF v.kind = Ok
                                             THEN Res(Ok, NoToken, NoClaims)
                                             ELSE Res(ErrRefreshFailed, NoToken, NoClaims)]]
  /\ UNCHANGED <<users, cache, redisUp, now, last, manager>>

\* refreshToken from the answer of GET on: the comparison with the stored
\* token, and past it findById, generateToken and storeToken.  No call gets
\* past the comparison, so the awaits after it are no steps of their own.
RefreshResume(k) ==
  /\ pending[k].op = "refresh" /\ pending[k].at = "redisGet"
  /\ LET token == pending[k].token
         storedToken == redisGet(cache, redisUp, now, KeyUserToken(token.id))
         user == findById(users, token.id)
         newToken == generateToken(user, now)
     IN IF storedToken = NoToken \/ storedToken # token \/ user = NoUser
          THEN /\ pending' = [pending EXCEPT ![k].at = "done",
                                ![k].res = Res(ErrRefreshFailed, NoToken, NoClaims)]
               /\ cache' = cache
          ELSE /\ pending' = [pending EXCEPT ![k].at = "done",
                                ![k].res = Res(Ok, newToken, NoClaims)]
               /\ cache' = storeToken(cache, redisUp, now, user.id, newToken)
  /\ UNCHANGED <<users, redisUp, now, last, manager>>

NextRace ==
  \/ \E k \in Callers, u \in Usernames, p \in Passwords : LoginBegin(k, u, p)
  \/ \E k \in Callers : LoginResume(k)
  \/ \E k \in Callers, tok \in AliceTokens : RefreshBegin(k, tok)
  \/ \E k \in Callers : RefreshResume(k)
  \/ Tick
  \/ RedisOutage

SpecRace == Init /\ [][NextRace]_vars

\* --------------------------------------------------- registers that overlap

\* The look-ups a register awaits one after the other, register's own two
\* and then createUser's two, and what each throws when it finds a row.
RegisterLookups ==
  << [at |-> "findByUsername", by |-> "username", error |-> ErrUsernameExists],
     [at |-> "findByEmail", by |-> "email", error |-> ErrEmailExists],
     [at |-> "createUser.findByUsername", by |-> "username", error |-> ErrUsernameExists],
     [at |-> "createUser.findByEmail", by |-> "email", error |-> ErrEmailExists] >>

\* register to its first await: the query of findByUsername is on its way.
RegisterBegin(k, userData) ==
  /\ pending[k].at = "idle"
  /\ pending' = [pending EXCEPT ![k] =
                   [Idle EXCEPT !.op = "register", !.at = RegisterLookups[1].at,
                                !.username = userData.username,
                                !.email = userData.email,
                                !.password = userData.password]]
  /\ UNCHANGED <<users, cache, redisUp, now, last, manager>>

\* register from the answer of a look-up on: a row found ends it with the
\* conflict error; else the next look-up, or after the last one the
\* password hash and User.create, is on its way.
RegisterLookup(k) ==
  /\ pending[k].op = "register"
  /\ \E i \in 1..Len(RegisterLookups) :
       /\ pending[k].at = RegisterLookups[i].at
       /\ LET found == IF RegisterLookups[i].by = "username"
                         THEN findByUsername(users, pending[k].username)
                         ELSE findByEmail(users, pending[k].email)
          IN IF found # NoUser
               THEN pending' = [pending EXCEPT ![k].at = "done",
                                  ![k].res = Res(RegisterLookups[i].error, NoToken, NoClaims)]
               ELSE pending' = [pending EXCEPT ![k].at =
                                  IF i < Len(RegisterLookups)
                                    THEN RegisterLookups[i + 1].at ELSE "User.create"]
  /\ UNCHANGED <<users, cache, redisUp, now, last, manager>>

\* register from the answer of User.create on: its error ends the register;
\* a created row is followed by generateToken and storeToken.  No call gets
\* a row created, so storeToken's await is no step of its own.
RegisterCreate(k) ==
  /\ pending[k].op = "register" /\ pending[k].at = "User.create"
  /\ LET userData == [username |-> pending[k].username, email |-> pending[k].email,
                      password |-> pending[k].password, role |-> "user",
                      status |-> "active"]
         created == UserCreate(users, userData)
         token == generateToken(created.user, now)
     IN IF created.kind # Ok
          THEN /\ pending' = [pending EXCEPT ![k].at = "done",
                                ![k].res = Res(created.kind, NoToken, NoClaims)]
               /\ UNCHANGED <<users, cache>>
          ELSE /\ pending' = [pending EXCEPT ![k].at = "done",
                                ![k].res = Res(Ok, token, Identity(created.user))]
               /\ users' = created.rows
               /\ cache' = storeToken(cache, redisUp, now, created.user.id, token)
  /\ UNCHANGED <<redisUp, now, last, manager>>

NextRegisterRace ==
  \/ \E k \in Callers, d \in RegisterInputs : RegisterBegin(k, d)
  \/ \E k \in Callers : RegisterLookup(k)
  \/ \E k \in Callers : RegisterCreate(k)
  \/ RedisOutage

SpecRegisterRace == Init /\ [][NextRegisterRace]_vars

\* ------------------------------------------- the Redis manager on its own

\* k calls connect().
Connect(k) ==
  /\ manager.calls[k].at = "idle"
  /\ WithinClients(manager)
  /\ manager' = connect(manager, k, "connect")
  /\ UNCHANGED <<users, cache, redisUp, now, last, pending>>

\* k calls ensureConnection() (from set or get): a ready manager is pinged
\* first, any other goes to connect().
EnsureConnection(k) ==
  /\ manager.calls[k].at = "idle"
  /\ IF isReady(manager)
       THEN manager' = [manager EXCEPT !.calls[k] =
                          [op |-> "ensureConnection", at |-> "healthCheck", awaits |-> NoClient]]
       ELSE /\ WithinClients(manager)
            /\ manager' = connect(manager, k, "ensureConnection")
  /\ UNCHANGED <<users, cache, redisUp, now, last, pending>>

\* The ping of healthCheck() answers k: PONG from a ready client of a Redis
\* that answers ends ensureConnection; anything else goes on to connect().
HealthCheck(k) ==
  /\ manager.calls[k].at = "healthCheck"
  /\ IF redisUp /\ manager.clients[manager.client].status = "ready"
       THEN manager' = [manager EXCEPT !.calls[k].at = "resolved"]
       ELSE /\ WithinClients(manager)
            /\ manager' = connect(manager, k, "ensureConnection")
  /\ UNCHANGED <<users, cache, redisUp, now, last, pending>>

\* k calls del(): connect() unless the manager is ready.
Del(k) ==
  /\ manager.calls[k].at = "idle"
  /\ IF isReady(manager)
       THEN manager' = [manager EXCEPT !.calls[k] =
                          [op |-> "del", at |-> "resolved", awaits |-> NoClient]]
       ELSE /\ WithinClients(manager)
            /\ manager' = connect(manager, k, "del")
  /\ UNCHANGED <<users, cache, redisUp, now, last, pending>>

\* checkConnection of a connect() that found another one connecting: it
\* resolves with the client once connected, with null once nobody is
\* connecting, and otherwise looks again 100 ms later.
Poll(k) ==
  /\ manager.calls[k].at = "poll"
  /\ \/ manager.isConnected /\ manager.client # NoClient
     \/ ~manager.isConnecting
  /\ manager' = [manager EXCEPT !.calls[k].at = "resolved"]
  /\ UNCHANGED <<users, cache, redisUp, now, last, pending>>

\* The 30 s timer of a connect() that awaits its client: it rejects, and
\* the catch clears isConnecting and leaves the client as it is.
Timeout(k) ==
  /\ manager.calls[k].at = "await"
  /\ manager' = [manager EXCEPT !.calls[k].at = "rejected", !.isConnecting = FALSE]
  /\ UNCHANGED <<users, cache, redisUp, now, last, pending>>

\* The caller takes the outcome of its call.
Return(k) ==
  /\ manager.calls[k].at \in {"resolved", "rejected"}
  /\ manager' = [manager EXCEPT !.calls[k] = NoCall]
  /\ UNCHANGED <<users, cache, redisUp, now, last, pending>>

\* Client c gets its socket: 'connect' sets isConnected and clears
\* isConnecting, whichever client this.client is by now.
ClientConnect(c) ==
  /\ redisUp
  /\ manager.clients[c].status = "connecting"
  /\ manager' = [manager EXCEPT !.clients[c].status = "connect",
                                !.isConnected = TRUE, !.isConnecting = FALSE]
  /\ UNCHANGED <<users, cache, redisUp, now, last, pending>>

\* Client c is ready: onReady resolves the connect() that awaits c.
ClientReady(c) ==
  /\ manager.clients[c].status = "connect"
  /\ manager' = [manager EXCEPT
       !.clients[c] = [status |-> "ready", retryAttempts |-> 0],
       !.calls = [k \in Callers |->
                   IF manager.calls[k].at = "await" /\ manager.calls[k].awaits = c
                     THEN [manager.calls[k] EXCEPT !.at = "resolved"]
                     ELSE manager.calls[k]]]
  /\ UNCHANGED <<users, cache, redisUp, now, last, pending>>

\* Client c fails to connect, or its connection breaks, with an error:
\* 'error' and 'close' clear isConnected, onError rejects the connect() that
\* awaits c, whose catch clears isConnecting; c itself reconnects or ends.
ClientError(c) ==
  /\ ~redisUp
  /\ manager.clients[c].status \in {"connecting", "connect", "ready"}
  /\ LET rejected == \E k \in Callers :
                       manager.calls[k].at = "await" /\ manager.calls[k].awaits = c
     IN manager' = [manager EXCEPT
          !.clients[c] = Disconnected(manager.clients[c]),
          !.isConnected = FALSE,
          !.isConnecting = IF rejected THEN FALSE ELSE manager.isConnecting,
          !.calls = [k \in Callers |->
                      IF manager.calls[k].at = "await" /\ manager.calls[k].awaits = c
                        THEN [manager.calls[k] EXCEPT !.at = "rejected"]
                        ELSE manager.calls[k]]]
  /\ UNCHANGED <<users, cache, redisUp, now, last, pending>>

\* The connection of client c is closed without an error: 'close' clears
\* isConnected; c reconnects or ends.
ClientClose(c) ==
  /\ ~redisUp
  /\ manager.clients[c].status \in {"connect", "ready"}
  /\ manager' = [manager EXCEPT !.clients[c] = Disconnected(manager.clients[c]),
                                !.isConnected = FALSE]
  /\ UNCHANGED <<users, cache, redisUp, now, last, pending>>

\* The retry delay of client c is over: it connects again.
ClientRetry(c) ==
  /\ manager.clients[c].status = "reconnecting"
  /\ manager' = [manager EXCEPT !.clients[c].status = "connecting"]
  /\ UNCHANGED <<users, cache, redisUp, now, last, pending>>

NextManager ==
  \/ \E k \in Callers : Connect(k)
  \/ \E k \in Callers : EnsureConnection(k)
  \/ \E k \in Callers : HealthCheck(k)
  \/ \E k \in Callers : Del(k)
  \/ \E k \in Callers : Poll(k)
  \/ \E k \in Callers : Timeout(k)
  \/ \E k \in Callers : Return(k)
  \/ \E c \in ClientIds : ClientConnect(c)
  \/ \E c \in ClientIds : ClientReady(c)
  \/ \E c \in ClientIds : ClientError(c)
  \/ \E c \in ClientIds : ClientClose(c)
  \/ \E c \in ClientIds : ClientRetry(c)
  \/ RedisOutage

SpecManager == Init /\ [][NextManager]_vars

\* -------------------------------------------------- storeToken on its own

\* jwt.sign(payload, JWT_SECRET, {expiresIn}) for a configured lifetime of
\* expiresIn seconds.
jwtSignExpiresIn(payload, secret, t, expiresIn) ==
  [jwtSign(payload, secret, t) EXCEPT !.exp = t + expiresIn]

\* The tokens storeToken is given: alice's, signed by the server at a second
\* from 0 to MaxIat with a lifetime from 0 to MaxLifetime.
StoreTokens ==
  { jwtSignExpiresIn(p, JWT_SECRET, t, e) :
      p \in {q \in TokenSubjects : q.username = "alice"},
      t \in 0..MaxIat, e \in 0..MaxLifetime }

\* AuthService.storeToken(user.id, token), called now - token.iat seconds
\* after the token was signed.
StoreToken(token) ==
  /\ token.iat <= now
  /\ cache' = storeToken(cache, redisUp, now, token.id, token)
  /\ last' = Call("storeToken", "", "", token.id, token, Res(Ok, NoToken, NoClaims))
  /\ UNCHANGED <<users, redisUp, now, pending, manager>>

NextStore ==
  \/ \E tok \in StoreTokens : StoreToken(tok)
  \/ Tick
  \/ RedisOutage

SpecStore == Init /\ [][NextStore]_vars

\* ------------------------------------------------------------------ claims

\* The account a username names in the table, by the table's rows alone.
HasAccount(rows, username) == \E u \in rows : u.username = username

AccountOf(rows, username) == CHOOSE u \in rows : u.username = username

\* The call c is a login with the right password of an active account.
CorrectLogin(rows, c) ==
  /\ c.op = "login"
  /\ HasAccount(rows, c.username)
  /\ compareSync(c.password, AccountOf(rows, c.username).password)
  /\ AccountOf(rows, c.username).status = "active"

\* The token is one the server's secret signed and nobody altered.
ServerSigned(tok) == tok.altered = "none" /\ tok.secret = JWT_SECRET

\* C1: a login with the correct password of an active account returns a token
\* T, and verify(T) right after it (same second, Redis answering, no call in
\* between) succeeds with the id, username, email and role of that account.
C1_LoginThenVerify ==
  (CorrectLogin(users, last) /\ last.up /\ redisUp /\ now = last.time)
    => /\ last.res.kind = Ok
       /\ verifyToken(cache, redisUp, now, last.res.token)
            = Res(Ok, NoToken, Identity(AccountOf(users, last.username)))

\* C2: when two logins of the same account with its correct password follow
\* one another, whatever the time between them, both return a token (T1, then
\* T2) and after the second verify(T1) fails with the token-no-longer-valid
\* error.
C2_SecondLoginRevokesFirst ==
  [][ ( /\ CorrectLogin(users, last) /\ last.up
        /\ last'.n # last.n /\ last'.username = last.username
        /\ CorrectLogin(users', last') /\ last'.up )
      => /\ last.res.kind = Ok
         /\ last'.res.kind = Ok
         /\ verifyToken(cache', redisUp', now', last.res.token).kind = ErrTokenInvalidated
    ]_vars

\* C3: when a login with the correct password of an active account is followed
\* by logout of that account's id, the login had returned a token T and after
\* the logout verify(T) fails with the token-no-longer-valid error.
C3_LogoutRevokes ==
  [][ ( /\ CorrectLogin(users, last) /\ last.up
        /\ last'.n # last.n /\ last'.op = "logout" /\ last'.up
        /\ last'.userId = AccountOf(users, last.username).id )
      => /\ last.res.kind = Ok
         /\ verifyToken(cache', redisUp', now', last.res.token).kind = ErrTokenInvalidated
    ]_vars

\* C4: the token T a correct login returned can be refreshed at any second of
\* its lifetime, and the refresh returns a token string different from T.
C4_RefreshReturnsDifferentToken ==
  (CorrectLogin(users, last) /\ last.up /\ redisUp /\ now < last.time + JWT_EXPIRATION)
    => /\ last.res.kind = Ok
       /\ LET r == refreshToken(users, cache, redisUp, now, last.res.token)
          IN r.res.kind = Ok /\ r.res.token # last.res.token

\* C5: after refresh(T) of the token T a correct login returned gave T', with
\* nothing else in between, verify(T') succeeds and verify(T) fails: T' is the
\* one token of the account that verifies.
C5_RefreshSwapsTheValidToken ==
  (CorrectLogin(users, last) /\ last.up /\ redisUp /\ now < last.time + JWT_EXPIRATION)
    => /\ last.res.kind = Ok
       /\ LET r == refreshToken(users, cache, redisUp, now, last.res.token)
          IN /\ r.res.kind = Ok
             /\ verifyToken(r.cache, redisUp, now, r.res.token).kind = Ok
             /\ verifyToken(r.cache, redisUp, now, last.res.token).kind # Ok
             /\ \A tok \in TokenInputs :
                  (tok.id = r.res.token.id
                   /\ verifyToken(r.cache, redisUp, now, tok).kind = Ok)
                    => tok = r.res.token
\* The cache states verify may meet for a token: the cache as it is, and the
\* cache holding that very token under either key of its account.
CachesFor(tok) ==
  { cache,
    [cache EXCEPT ![KeyUserToken(tok.id)] =
       [present |-> TRUE, value |-> tok, expireAt |-> NoExpiry]],
    [cache EXCEPT ![KeyUser(tok.id)] =
       [present |-> TRUE, value |-> tok, expireAt |-> NoExpiry]] }

\* C6: verify(T) succeeds only if Redis answered and the entry it read for the
\* account id claimed in T is exactly T; a token the server signed that has
\* not expired is rejected as no longer valid when that entry is absent or
\* holds another string; so at most one token per account verifies.  The same
\* holds of verify on the cache with T put under either key of its account:
\* T then verifies exactly when it is the entry under the key verify reads.
C6_VerifyOnlyTheCachedToken ==
  /\ last.op = "verify" =>
       LET stored == ServerGet(cache, last.time, KeyUserToken(last.token.id))
       IN /\ last.res.kind = Ok => (last.up /\ stored = last.token)
          /\ ( /\ ServerSigned(last.token) /\ last.time < last.token.exp
               /\ (~last.up \/ stored # last.token) )
               => last.res.kind = ErrTokenInvalidated
          /\ \A c \in CachesFor(last.token) :
               verifyToken(c, TRUE, last.time, last.token).kind = Ok
                 <=> /\ ServerSigned(last.token) /\ last.time < last.token.exp
                     /\ ServerGet(c, last.time, KeyUserToken(last.token.id)) = last.token
  /\ \A i \in Ids :
       Cardinality({tok \in TokenInputs :
                      tok.id = i /\ verifyToken(cache, redisUp, now, tok).kind = Ok}) <= 1

\* C6 has acted: verify rejected a token the server signed, not yet expired,
\* because the account has no cache entry.
C6_Witness ==
  /\ last.op = "verify" /\ last.up
  /\ ServerSigned(last.token) /\ last.time < last.token.exp
  /\ ~cache[KeyUserToken(last.token.id)].present
  /\ last.res.kind = ErrTokenInvalidated

\* C7: verify of a token the server signed whose expiry has passed fails with
\* TokenExpiredError, and does so whatever the cache holds, the token itself
\* included.
C7_ExpiredWhateverTheCache ==
  /\ (last.op = "verify" /\ ServerSigned(last.token) /\ last.time >= last.token.exp)
       => last.res.kind = TokenExpiredError
  /\ \A tok \in TokenInputs : \A c \in CachesFor(tok) : \A up \in BOOLEAN :
       (ServerSigned(tok) /\ now >= tok.exp)
         => verifyToken(c, up, now, tok).kind = TokenExpiredError

\* C7 has acted: verify of an expired token of the server failed as expired.
C7_Witness ==
  /\ last.op = "verify" /\ ServerSigned(last.token)
  /\ last.time >= last.token.exp
  /\ last.res.kind = TokenExpiredError

\* C8: verify of a token signed with another secret, or of a token of the
\* server with one character altered, fails with JsonWebTokenError, which is
\* neither the expired nor the no-longer-valid error, whatever the cache holds
\* and whether or not the token's expiry has passed.
C8_BadSignatureWhateverTheCache ==
  (last.op = "verify" /\ ~ServerSigned(last.token))
    => /\ last.res.kind = JsonWebTokenError
       /\ last.res.kind \notin {TokenExpiredError, ErrTokenInvalidated, Ok}
       /\ \A c \in CachesFor(last.token) : \A up \in BOOLEAN :
            verifyToken(c, up, last.time, last.token).kind = JsonWebTokenError

\* C9: login of a stored account with a password that does not match the
\* stored hash fails with the wrong-password error and returns no token.
C9_WrongPasswordRejected ==
  ( /\ last.op = "login" /\ HasAccount(users, last.username)
    /\ ~compareSync(last.password, AccountOf(users, last.username).password) )
    => last.res = Res(ErrWrongPassword, NoToken, NoClaims)

\* C10: login with a username that matches no account fails with the
\* user-not-found error, returns no token, and leaves the cache and the users
\* table as they were.
C10_UnknownUserNotFound ==
  [][ (last'.n # last.n /\ last'.op = "login" /\ ~HasAccount(users, last'.username))
      => /\ last'.res = Res(ErrUserNotFound, NoToken, NoClaims)
         /\ cache' = cache
         /\ users' = users
    ]_vars

\* C10 has acted: a login with an unknown username failed as not found.
C10_Witness ==
  /\ last.op = "login" /\ ~HasAccount(users, last.username)
  /\ last.res.kind = ErrUserNotFound

\* C11: login with the correct password of an account whose status is not
\* 'active' fails with the account-disabled error: it returns no token, and
\* the users table (the last-login time with it) and the cache, the entry of
\* that account included, are left as they were.
C11_DisabledLoginRejected ==
  [][ ( /\ last'.n # last.n /\ last'.op = "login"
        /\ HasAccount(users, last'.username)
        /\ compareSync(last'.password, AccountOf(users, last'.username).password)
        /\ AccountOf(users, last'.username).status # "active" )
      => /\ last'.res = Res(ErrUserDisabled, NoToken, NoClaims)
         /\ users' = users
         /\ cache' = cache
    ]_vars

\* C11 has acted: a login with the right password of an account that is not
\* active failed as disabled.
C11_Witness ==
  /\ last.op = "login" /\ HasAccount(users, last.username)
  /\ compareSync(last.password, AccountOf(users, last.username).password)
  /\ AccountOf(users, last.username).status # "active"
  /\ last.res.kind = ErrUserDisabled

\* The username or the email of the registration data is one a row of the
\* table already has.
Conflicts(rows, userData) ==
  \/ \E u \in rows : u.username = userData.username
  \/ \E u \in rows : u.email = userData.email

\* C12: register with a username a row already has fails with the
\* username-exists error, and with a new username and an email a row already
\* has with the email-exists error: no row is added to the users table, no
\* token is returned, and the cache is left as it was.
C12_RegisterConflictRejected ==
  [][ \A d \in RegisterInputs :
        (Register(d) /\ Conflicts(users, d))
          => /\ last'.res =
                  Res(IF HasAccount(users, d.username)
                        THEN ErrUsernameExists ELSE ErrEmailExists,
                      NoToken, NoClaims)
             /\ users' = users
             /\ cache' = cache
    ]_vars

\* C12 has acted: a register with a new username and the email of a stored
\* account failed as a conflict.
C12_Witness ==
  /\ last.op = "register" /\ ~HasAccount(users, last.username)
  /\ last.res.kind = ErrEmailExists

\* C13: with Redis reachable, a register of a username and an email no row
\* has returns a token T1 and stores it in the cache for the new account;
\* verify(T1) then succeeds with the registered username in its claims; a
\* login of the same account that follows returns a token T2 other than T1,
\* after which verify(T1) fails as no longer valid and verify(T2) succeeds.
C13_RegisterThenLogin ==
  [][ \A d \in RegisterInputs :
        (Register(d) /\ ~Conflicts(users, d) /\ redisUp)
          => LET T1 == last'.res.token
                 r2 == login(users', cache', redisUp, now, d.username, d.password)
                 T2 == r2.res.token
             IN /\ last'.res.kind = Ok
                /\ T1 # NoToken
                /\ \E k \in Keys : cache'[k].present /\ cache'[k].value = T1
                /\ verifyToken(cache', redisUp, now, T1).kind = Ok
                /\ verifyToken(cache', redisUp, now, T1).claims.username = d.username
                /\ r2.res.kind = Ok
                /\ T2 # T1
                /\ verifyToken(r2.cache, redisUp, now, T1).kind = ErrTokenInvalidated
                /\ verifyToken(r2.cache, redisUp, now, T2).kind = Ok
    ]_vars

\* C14: while Redis does not answer, verify fails and returns no claims,
\* also for a token the cache holds under the key verify reads; and verify
\* returns claims only when Redis answered and the entry read is the token.
C14_VerifyFailsClosed ==
  /\ (last.op = "verify" /\ ~last.up)
       => last.res.kind # Ok /\ last.res.claims = NoClaims
  /\ (last.op = "verify" /\ last.res.claims # NoClaims)
       => /\ last.up
          /\ ServerGet(cache, last.time, KeyUserToken(last.token.id)) = last.token
  /\ \A tok \in TokenInputs : \A c \in CachesFor(tok) :
       LET r == verifyToken(c, FALSE, now, tok)
       IN r.kind # Ok /\ r.claims = NoClaims

\* C14 has acted: with Redis not answering, verify rejected a token the
\* server signed that has not expired.
C14_Witness ==
  /\ last.op = "verify" /\ ~last.up
  /\ ServerSigned(last.token) /\ last.time < last.token.exp
  /\ last.res.kind = ErrTokenInvalidated

\* C15: while Redis does not answer, so that storeToken's write fails, a
\* login with the correct password of an active account, and a register of
\* a username and an email no row has, still succeed and return the token
\* and the identity; the failure of the cache is no error of the operation.
C15_CacheWriteFailureNotPropagated ==
  [][ /\ (last'.n # last.n /\ ~redisUp /\ CorrectLogin(users, last'))
          => /\ last'.res.kind = Ok
             /\ last'.res.token # NoToken
             /\ last'.res.claims = Identity(AccountOf(users, last'.username))
      /\ \A d \in RegisterInputs :
           (Register(d) /\ ~redisUp /\ ~Conflicts(users, d))
             => /\ last'.res.kind = Ok
                /\ last'.res.token # NoToken
                /\ last'.res.claims.username = d.username
    ]_vars

\* C16: logout returns success for every account id, whether or not Redis
\* answers the delete and whether or not the account has an entry in the
\* cache; a second logout of the same id returns the same and leaves the
\* cache as the first left it.
C16_LogoutAlwaysSucceeds ==
  /\ last.op = "logout" => last.res = Res(Ok, NoToken, NoClaims)
  /\ \A tok \in TokenInputs : \A c \in CachesFor(tok) : \A up \in BOOLEAN :
       LET once == logout(c, up, tok.id)
           twice == logout(once.cache, up, tok.id)
       IN /\ once.res = Res(Ok, NoToken, NoClaims)
          /\ twice = once
          /\ up => ~once.cache[KeyUser(tok.id)].present

\* C16 has acted: a logout returned success while Redis did not answer.
C16_Witness ==
  /\ last.op = "logout" /\ ~last.up
  /\ last.res.kind = Ok

\* C17: when the logins of two callers, each with the correct password of
\* the same active account, have overlapped and both are over, each caller
\* holds a token; the token the cache holds for the account, the one whose
\* set completed last, verifies, and a token of the two that the cache does
\* not hold fails verify as no longer valid.
C17_RaceLastWriteWins ==
  \A a, b \in Callers :
    ( /\ a # b
      /\ pending[a].at = "done" /\ pending[b].at = "done"
      /\ CorrectLogin(users, pending[a]) /\ CorrectLogin(users, pending[b])
      /\ pending[a].username = pending[b].username )
    => LET Ta == pending[a].res.token
           Tb == pending[b].res.token
           stored == ServerGet(cache, now, KeyUserToken(Ta.id))
       IN /\ pending[a].res.kind = Ok /\ Ta # NoToken
          /\ pending[b].res.kind = Ok /\ Tb # NoToken
          /\ redisUp => /\ stored \in {Ta, Tb}
                        /\ verifyToken(cache, redisUp, now, stored).kind
                             \in {Ok, TokenExpiredError}
                        /\ \A T \in {Ta, Tb} \ {stored} :
                             verifyToken(cache, redisUp, now, T).kind
                               \in {ErrTokenInvalidated, TokenExpiredError}

\* C18: a request whose Authorization header is missing or empty, does not
\* start with 'Bearer ', or has nothing between the first space and the
\* next, is answered 401 by the gate, which then has not called
\* authService.verifyToken, has not called next and has set no req.user.
C18_MalformedHeaderRejected ==
  (last.op = "gate" /\ last.header \in MalformedHeaders)
    => /\ last.http.status = 401
       /\ ~last.http.verifyCalled
       /\ ~last.http.next
       /\ last.http.user = NoClaims

\* C18 has acted: the gate answered 401 to 'Bearer ' with no token after it,
\* without calling verify or next.
C18_Witness ==
  /\ last.op = "gate"
  /\ last.header = Header("Bearer", <<NoToken>>)
  /\ last.http.status = 401 /\ ~last.http.verifyCalled /\ ~last.http.next

\* The error authService.verifyToken raises for the token of a header of the
\* form 'Bearer T', in cache c, with Redis up or not, at second t.
FailureOf(c, up, t, authHeader) == verifyToken(c, up, t, splitSecond(authHeader)).kind

\* C19: the gate's answer to a request whose token fails verify with the
\* bad-signature error has the same status and the same message as its
\* answer to a request, made in the same state, whose token fails verify as
\* no longer valid.
C19_SameRejectionForBadSignatureAndRevoked ==
  ( /\ last.op = "gate" /\ last.http.verifyCalled
    /\ FailureOf(cache, last.up, last.time, last.header) = JsonWebTokenError )
    => \A tok \in TokenInputs :
         LET other == Header("Bearer", <<tok>>)
             answer == authMiddleware_verifyToken(cache, last.up, last.time, other)
         IN FailureOf(cache, last.up, last.time, other) = ErrTokenInvalidated
              => /\ answer.status = last.http.status
                 /\ answer.message = last.http.message

\* C20: when verify fails with TokenExpiredError the gate answers 401 with
\* the token-expired message, calls no next and sets no req.user; and when
\* verify fails with any other error the gate's message is another one.
C20_ExpiredHasItsOwnMessage ==
  (last.op = "gate" /\ last.http.verifyCalled)
    => LET failure == FailureOf(cache, last.up, last.time, last.header)
       IN /\ failure = TokenExpiredError
               => /\ last.http.status = 401
                  /\ last.http.message = MsgTokenExpired
                  /\ ~last.http.next
                  /\ last.http.user = NoClaims
          /\ failure \notin {TokenExpiredError, Ok}
               => /\ last.http.status = 401
                  /\ last.http.message # MsgTokenExpired

\* C20 has acted: the gate answered a request whose token had expired with
\* 401 and the token-expired message.
C20_Witness ==
  /\ last.op = "gate" /\ last.http.verifyCalled
  /\ ServerSigned(splitSecond(last.header))
  /\ last.time >= splitSecond(last.header).exp
  /\ last.http.status = 401 /\ last.http.message = MsgTokenExpired
  /\ ~last.http.next

\* C21: the optional gate calls next exactly once and sends no response
\* for every request: without a header, with a header that is not
\* 'Bearer <token>', and with a token whose verification fails, whatever
\* the failure, Redis not answering included; in all those cases it sets no
\* req.user, and when it sets req.user these are the claims verify returned;
\* the same holds of it on the cache with the token put under either key of
\* its account, where verify of the token can succeed.
C21_OptionalGateAlwaysProceeds ==
  /\ last.op = "optional"
    => /\ last.http.nextCalls = 1 /\ last.http.next
       /\ last.http.sent = 0 /\ last.http.status = 0
       /\ last.header \in MalformedHeaders
            => last.http.user = NoClaims /\ ~last.http.verifyCalled
       /\ last.header \notin MalformedHeaders
            => LET r == verifyToken(cache, last.up, last.time, splitSecond(last.header))
               IN /\ last.http.verifyCalled
                  /\ r.kind # Ok => last.http.user = NoClaims
                  /\ r.kind = Ok => last.http.user = r.claims
                  /\ last.http.user # NoClaims => r.kind = Ok
  /\ \A tok \in TokenInputs : \A c \in CachesFor(tok) : \A up \in BOOLEAN :
       LET r == verifyToken(c, up, now, tok)
           o == optionalAuth(c, up, now, Header("Bearer", <<tok>>))
       IN /\ o.nextCalls = 1 /\ o.sent = 0
          /\ o.user = IF r.kind = Ok THEN r.claims ELSE NoClaims

\* C21 has acted: the optional gate let through, as anonymous, a request
\* whose token failed verification while Redis did not answer.
C21_Witness ==
  /\ last.op = "optional" /\ ~last.up
  /\ last.http.verifyCalled
  /\ ServerSigned(splitSecond(last.header))
  /\ last.time < splitSecond(last.header).exp
  /\ last.http.nextCalls = 1 /\ last.http.sent = 0 /\ last.http.user = NoClaims

\* C22: POST /login with a field missing, an unknown username, a password
\* that does not match, or an account that is not active, and POST /register
\* with a field missing or a username or email a row already has, are
\* answered with a status from 400 to 499, never 500 or above.
C22_CredentialFailuresAre4xx ==
  [][ /\ \A b \in LoginBodies :
           ( /\ LoginRequest(b)
             /\ \/ b.username = "" \/ b.password = ""
                \/ ~HasAccount(users, b.username)
                \/ ~compareSync(b.password, AccountOf(users, b.username).password)
                \/ AccountOf(users, b.username).status # "active" )
             => last'.http.status \in 400..499
      /\ \A b \in RegisterBodies :
           ( /\ RegisterRequest(b)
             /\ \/ b.username = "" \/ b.email = "" \/ b.password = ""
                \/ Conflicts(users, b) )
             => last'.http.status \in 400..499
    ]_vars

C24_LastLoginFailureDoesNotFailLogin ==
  ( /\ last.op = "login" /\ CorrectLogin(users, last)
    /\ ~IsFunction("updateLastLogin") )
    => /\ last.res.kind # TypeError
       /\ last.res.kind = Ok
       /\ last.res.token # NoToken
       /\ last.res.claims.username = last.username
       /\ last.up => \E k \in Keys : cache[k].present /\ cache[k].value = last.res.token

\* C25: an entry storeToken writes to the cache holds the token with a time
\* to live of the token's exp minus the second of writing, so that it
\* expires at the token's exp and not later.
C25_TtlIsRemainingLifetime ==
  [][ \A tok \in StoreTokens :
        (StoreToken(tok) /\ cache'[KeyUser(tok.id)] # cache[KeyUser(tok.id)])
          => /\ cache'[KeyUser(tok.id)].present
             /\ cache'[KeyUser(tok.id)].value = tok
             /\ cache'[KeyUser(tok.id)].expireAt = now + (tok.exp - now)
             /\ cache'[KeyUser(tok.id)].expireAt <= tok.exp
    ]_vars

\* C28: no entry of the cache is without an expiry: for every lifetime from
\* 0 to MaxLifetime and every delay between signing and storing, after
\* storeToken the entry of the account either has an expiry that lies after
\* the second of writing, or storeToken wrote nothing.
C28_NoEntryWithoutExpiry ==
  /\ \A k \in Keys : cache[k].present => cache[k].expireAt # NoExpiry
  /\ last.op = "storeToken"
       => LET e == cache[KeyUser(last.userId)]
          IN (e.present /\ e.value = last.token) => e.expireAt > last.token.iat

GatePassed(o, c, up, t, h) ==
  /\ o.nextCalls = 1 /\ o.next /\ o.sent = 0 /\ o.status = 0
  /\ h \notin MalformedHeaders
  /\ verifyToken(c, up, t, splitSecond(h)).kind = Ok
  /\ o.user = verifyToken(c, up, t, splitSecond(h)).claims
  /\ o.user # NoClaims

\* The gate's outcome o is a rejection: one response, of status 401, no
\* req.user, next not called.
GateRejected(o) ==
  /\ o.sent = 1 /\ o.status = 401
  /\ o.user = NoClaims
  /\ o.nextCalls = 0 /\ ~o.next

\* C27: every run of the mandatory gate ends in exactly one of two ways: it
\* called next once with req.user set to the claims of a verify that
\* succeeded, or it sent one 401 response, set no req.user and did not call
\* next; the same holds of it on the cache with the token put under either
\* key of its account, where verify of the token can succeed.
C27_GatePassesOrRejects ==
  /\ last.op = "gate"
       => (GatePassed(last.http, cache, last.up, last.time, last.header)
             # GateRejected(last.http))
  /\ \A tok \in TokenInputs : \A c \in CachesFor(tok) : \A up \in BOOLEAN :
       LET h == Header("Bearer", <<tok>>)
           o == authMiddleware_verifyToken(c, up, now, h)
       IN /\ GatePassed(o, c, up, now, h) # GateRejected(o)
          /\ GatePassed(o, c, up, now, h) <=> verifyToken(c, up, now, tok).kind = Ok

\* C27 has acted: the gate called verify for a token the server signed,
\* which failed, and answered with one 401 and no next.
C27_Witness ==
  /\ last.op = "gate" /\ last.http.verifyCalled
  /\ ServerSigned(splitSecond(last.header))
  /\ GateRejected(last.http)
  /\ ~GatePassed(last.http, cache, last.up, last.time, last.header)

C30_AtMostOneOpenClient ==
  Cardinality(OpenClients(manager)) <= 1

====
